---------------------------- MODULE Spec2Model ----------------------------
(***************************************************************************)
(* Model of scripts/fix_icon.py: fix_icon_and_generate_favicon().          *)
(*                                                                         *)
(* The function opens the logo, flood-fills the near-white pixels that are *)
(* 4-connected to the image border with target_green (a breadth-first      *)
(* search over a list used as a FIFO queue and a visited set), and then    *)
(* saves the master icon, four resized icons and the favicon.  The whole   *)
(* body sits in one try/except that prints the error.                      *)
(*                                                                         *)
(* Coordinates are <<x, y>> with 0 <= x < width and 0 <= y < height, as in *)
(* the source.  A pixel is the RGBA tuple <<r, g, b, a>>; the source's     *)
(* pixel[0] is pixel[1] here (TLA+ tuples start at 1).                     *)
(***************************************************************************)
EXTENDS Integers, Sequences, FiniteSets

VARIABLES
    input,      \* the stored source image: [width, height, pixels]
    target,     \* the colour written by the fill (target_green)
    width,      \* img.size[0], 0 before the image is opened
    height,     \* img.size[1], 0 before the image is opened
    pixels,     \* img.load(): coordinate -> RGBA tuple
    visited,    \* the visited set
    queue,      \* the frontier list
    pc,         \* position in the function
    written,    \* the output files saved so far, in order
    enq,        \* history: coordinate -> times it entered the filtered queue
    writes,     \* history: coordinate -> times pixels[c] was assigned
    pops,       \* history: number of queue.pop executed in this fill
    run,        \* which pass of the fill is running (1 = the script's own)
    first       \* history: the grid as the first pass left it

vars == <<input, target, width, height, pixels, visited, queue, pc, written,
          enq, writes, pops, run, first>>

-----------------------------------------------------------------------------
(* Bounds of the model *)

\* A grid has at most MaxCells pixels (width * height <= MaxCells).
MaxCells == 9

\* A grid has at most MaxAnyWhite white-ish pixels where the loop takes the
\* elements of the queue in every order (specification SpecAny).
MaxAnyWhite == 3

\* The fill is run at most MaxRuns times on the same grid (specification SpecTwice).
MaxRuns == 2

-----------------------------------------------------------------------------
(* Colours *)

Threshold == 200

target_green == <<17, 124, 50, 255>>

White == <<255, 255, 255, 255>>

\* One channel sits exactly on the threshold: not white-ish.
OffWhite == <<255, 255, 200, 255>>

\* The pixel values an input image is drawn from.
Palette == {White, OffWhite}

\* The target colours of specification SpecTerm: target_green and a colour
\* that satisfies is_white.
Targets == {target_green, White}

is_white(pixel) ==
    pixel[1] > Threshold /\ pixel[2] > Threshold /\ pixel[3] > Threshold

-----------------------------------------------------------------------------
(* The grid *)

Coords(w, h) == (0 .. w - 1) \X (0 .. h - 1)

\* The image sizes of at most n pixels.
Sizes(n) == {s \in (1 .. n) \X (1 .. n) : s[1] * s[2] <= n}

\* The stored images of at most n pixels.
Images(n) ==
    UNION {[width : {s[1]}, height : {s[2]},
            pixels : [Coords(s[1], s[2]) -> Palette]] : s \in Sizes(n)}

\* The images of I with at most k white-ish pixels.
FewWhite(I, k) ==
    {img \in I :
        Cardinality({c \in DOMAIN img.pixels : is_white(img.pixels[c])}) <= k}

NoGrid == [c \in {} |-> White]

\* range(width): (x, 0), (x, height-1) for each x, in order.
XSeeds(w, h) ==
    [i \in 1 .. 2 * w |->
        IF i % 2 = 1 THEN <<(i - 1) \div 2, 0>> ELSE <<(i - 1) \div 2, h - 1>>]

\* range(height): (0, y), (width-1, y) for each y, in order.
YSeeds(w, h) ==
    [i \in 1 .. 2 * h |->
        IF i % 2 = 1 THEN <<0, (i - 1) \div 2>> ELSE <<w - 1, (i - 1) \div 2>>]

\* Only the four corners, not the whole perimeter.
CornerSeeds(w, h) == <<<<0, 0>>, <<w - 1, 0>>, <<0, h - 1>>, <<w - 1, h - 1>>>>

BorderSeeds(w, h) == XSeeds(w, h) \o YSeeds(w, h)

\* The filter left out: every border pixel stays in the queue.
FilterNone(q, px) == q

\* queue = [p for p in queue if is_white(pixels[p])]
FilterWhite(q, px) == SelectSeq(q, LAMBDA p : is_white(px[p]))

Dirs == <<<<-1, 0>>, <<1, 0>>, <<0, -1>>, <<0, 1>>>>

InBounds(n, w, h) == 0 <= n[1] /\ n[1] < w /\ 0 <= n[2] /\ n[2] < h

\* The eight neighbours of c: the four of the source and the diagonals.
Neighbours8(c) ==
    [i \in 1 .. 8 |->
        <<c[1] + (<<-1, 1, 0, 0, -1, -1, 1, 1>>)[i],
          c[2] + (<<0, 0, -1, 1, -1, 1, -1, 1>>)[i]>>]

\* (x + dx, y + dy) for the four (dx, dy) of the inner for loop, in its order.
Neighbours(c) == [i \in 1 .. Len(Dirs) |-> <<c[1] + Dirs[i][1], c[2] + Dirs[i][2]>>]

\* The inner loop with the is_white test left out.
PushedNoWhiteTest(c, w, h, vis, px) ==
    SelectSeq(Neighbours(c), LAMBDA n : InBounds(n, w, h) /\ n \notin vis)

\* The neighbours of c that the inner for loop appends, in its order.
Pushed(c, w, h, vis, px) ==
    SelectSeq(Neighbours(c),
              LAMBDA n : InBounds(n, w, h) /\ n \notin vis /\ is_white(px[n]))

Range(s) == {s[i] : i \in 1 .. Len(s)}

Count(s, c) == Cardinality({i \in 1 .. Len(s) : s[i] = c})

\* The list s without its i-th element: what queue.pop leaves behind.
Remove(s, i) == SubSeq(s, 1, i - 1) \o SubSeq(s, i + 1, Len(s))

\* The output files, in the order the function saves them.
Outputs ==
    <<"gimmies_app_icon.png", "icon-1024.png", "icon-512.png", "icon-192.png",
      "apple-touch-icon.png", "favicon.png">>

-----------------------------------------------------------------------------
(* The fill as a function of its state.  A fill state is the record        *)
(* [pixels, visited, queue, enq, writes, pops]; the image's width w and    *)
(* height h and the target colour t are parameters.                        *)

\* Lines 30-42: visited = set(); queue = the seeds whose pixel is white.
Seeded(seeds, px, w, h) ==
    LET q == FilterWhite(seeds, px)
    IN  [pixels |-> px,
         visited |-> {},
         queue |-> q,
         enq |-> [c \in Coords(w, h) |-> Count(q, c)],
         writes |-> [c \in Coords(w, h) |-> 0],
         pops |-> 0]

\* The visited coordinate is looked at and left in the queue.
DiscardedPeek(st, rest) == st

\* break in the place of continue.
DiscardedBreak(st, rest) == [st EXCEPT !.queue = <<>>, !.pops = @ + 1]

\* Lines 46-48: the popped coordinate is in visited; continue.
Discarded(st, rest) == [st EXCEPT !.queue = rest, !.pops = @ + 1]

\* Lines 49-59 without visited.add.
VisitedNoMark(st, c, rest, w, h, t) ==
    LET px == [st.pixels EXCEPT ![c] = t]
        new == Pushed(c, w, h, st.visited, px)
    IN  [pixels |-> px,
         visited |-> st.visited,
         queue |-> rest \o new,
         enq |-> [d \in DOMAIN st.enq |-> st.enq[d] + Count(new, d)],
         writes |-> [st.writes EXCEPT ![c] = @ + 1],
         pops |-> st.pops + 1]

\* Lines 49-59 writing pixels[y, x].
VisitedSwapped(st, c, rest, w, h, t) ==
    LET vis == st.visited \cup {c}
        px == [d \in DOMAIN st.pixels |->
                  IF d = <<c[2], c[1]>> THEN t ELSE st.pixels[d]]
        new == Pushed(c, w, h, vis, px)
    IN  [pixels |-> px,
         visited |-> vis,
         queue |-> rest \o new,
         enq |-> [d \in DOMAIN st.enq |-> st.enq[d] + Count(new, d)],
         writes |-> [st.writes EXCEPT ![c] = @ + 1],
         pops |-> st.pops + 1]

\* Lines 46, 49-59: mark c, write the target, append the neighbours that qualify.
Visited(st, c, rest, w, h, t) ==
    LET vis == st.visited \cup {c}
        px == [st.pixels EXCEPT ![c] = t]
        new == Pushed(c, w, h, vis, px)
    IN  [pixels |-> px,
         visited |-> vis,
         queue |-> rest \o new,
         enq |-> [d \in DOMAIN st.enq |-> st.enq[d] + Count(new, d)],
         writes |-> [st.writes EXCEPT ![c] = @ + 1],
         pops |-> st.pops + 1]

\* One iteration of the while loop that takes the i-th element of the queue
\* (the source takes the first: queue.pop(0)).
Body(st, i, w, h, t) ==
    LET c == st.queue[i]
        rest == Remove(st.queue, i)
    IN  IF c \in st.visited THEN Discarded(st, rest)
        ELSE Visited(st, c, rest, w, h, t)

\* Lines 45-59 run to the end, taking the first element each time.
RECURSIVE FifoRun(_, _, _, _)
FifoRun(st, w, h, t) ==
    IF st.queue = <<>> THEN st ELSE FifoRun(Body(st, 1, w, h, t), w, h, t)

\* Lines 30-59 on the grid px.
Fill(px, w, h, t) == FifoRun(Seeded(BorderSeeds(w, h), px, w, h), w, h, t)

-----------------------------------------------------------------------------
(* Initial states *)

InitWith(I, T) ==
    /\ input \in I
    /\ target \in T
    /\ width = 0
    /\ height = 0
    /\ pixels = NoGrid
    /\ visited = {}
    /\ queue = <<>>
    /\ pc = "open"
    /\ written = <<>>
    /\ enq = NoGrid
    /\ writes = NoGrid
    /\ pops = 0
    /\ run = 1
    /\ first = NoGrid

Init == InitWith(Images(MaxCells), {target_green})

InitAnyTarget == InitWith(Images(MaxCells), Targets)

InitFewWhite == InitWith(FewWhite(Images(MaxCells), MaxAnyWhite), {target_green})

-----------------------------------------------------------------------------
(* Actions *)

\* The fill state held by the variables.
Cur ==
    [pixels |-> pixels, visited |-> visited, queue |-> queue, enq |-> enq,
     writes |-> writes, pops |-> pops]

Becomes(st) ==
    /\ pixels' = st.pixels
    /\ visited' = st.visited
    /\ queue' = st.queue
    /\ enq' = st.enq
    /\ writes' = st.writes
    /\ pops' = st.pops

\* Image.open(source_path) raises: the except clause prints and the function ends.
OpenFail ==
    /\ pc = "open"
    /\ pc' = "error"
    /\ UNCHANGED <<input, target, width, height, pixels, visited, queue, written,
                   enq, writes, pops, run, first>>

\* Image.open(...).convert("RGBA"); width, height = img.size; pixels = img.load()
Open ==
    /\ pc = "open"
    /\ width' = input.width
    /\ height' = input.height
    /\ pixels' = input.pixels
    /\ pc' = "seed"
    /\ UNCHANGED <<input, target, visited, queue, written, enq, writes, pops,
                   run, first>>

\* visited = set(); queue = the border pixels; queue filtered for white pixels.
Seed ==
    /\ pc = "seed"
    /\ Becomes(Seeded(BorderSeeds(width, height), pixels, width, height))
    /\ pc' = "loop"
    /\ UNCHANGED <<input, target, width, height, written, run, first>>

\* x, y = queue.pop(0); if (x, y) in visited: continue
PopDiscard ==
    /\ pc = "loop"
    /\ queue # <<>>
    /\ Head(queue) \in visited
    /\ Becomes(Discarded(Cur, Tail(queue)))
    /\ UNCHANGED <<input, target, width, height, pc, written, run, first>>

\* x, y = queue.pop(0) with the visited test left out.
PopVisitAlways ==
    /\ pc = "loop"
    /\ queue # <<>>
    /\ Becomes(Visited(Cur, Head(queue), Tail(queue), width, height, target))
    /\ UNCHANGED <<input, target, width, height, pc, written, run, first>>

\* x, y = queue.pop(0); visited.add; pixels[x, y] = target_green; push neighbours
PopVisit ==
    /\ pc = "loop"
    /\ queue # <<>>
    /\ Head(queue) \notin visited
    /\ Becomes(Visited(Cur, Head(queue), Tail(queue), width, height, target))
    /\ UNCHANGED <<input, target, width, height, pc, written, run, first>>

\* while queue: is false; print("Flood fill complete.")
LoopExit ==
    /\ pc = "loop"
    /\ queue = <<>>
    /\ pc' = "save"
    /\ first' = IF run = 1 THEN pixels ELSE first
    /\ UNCHANGED <<input, target, width, height, pixels, visited, queue, written,
                   enq, writes, pops, run>>

\* img.save / resized.save / favicon.save of the next output succeeds.
SaveOk ==
    /\ pc = "save"
    /\ Len(written) < Len(Outputs)
    /\ written' = Append(written, Outputs[Len(written) + 1])
    /\ UNCHANGED <<input, target, width, height, pixels, visited, queue, pc,
                   enq, writes, pops, run, first>>

\* The save of the next output raises: the except clause prints and the function ends.
SaveFail ==
    /\ pc = "save"
    /\ Len(written) < Len(Outputs)
    /\ pc' = "error"
    /\ UNCHANGED <<input, target, width, height, pixels, visited, queue, written,
                   enq, writes, pops, run, first>>

\* The function returns with the favicon not yet saved.
FinishEarly ==
    /\ pc = "save"
    /\ Len(written) >= Len(Outputs) - 1
    /\ pc' = "done"
    /\ UNCHANGED <<input, target, width, height, pixels, visited, queue, written,
                   enq, writes, pops, run, first>>

\* The favicon is saved; the function returns.
Finish ==
    /\ pc = "save"
    /\ Len(written) = Len(Outputs)
    /\ pc' = "done"
    /\ UNCHANGED <<input, target, width, height, pixels, visited, queue, written,
                   enq, writes, pops, run, first>>

Next ==
    \/ OpenFail
    \/ Open
    \/ Seed
    \/ PopDiscard
    \/ PopVisit
    \/ LoopExit
    \/ SaveOk
    \/ SaveFail
    \/ Finish

Spec == Init /\ [][Next]_vars

\* The function as a sequential program runs it: a step that can be taken is
\* taken.  The target colour ranges over Targets.
SpecTerm == InitAnyTarget /\ [][Next]_vars /\ WF_vars(Next)

-----------------------------------------------------------------------------
(* The loop with queue.pop(0) replaced by the removal of an arbitrary      *)
(* element of the queue.                                                   *)

PopAnyDiscard ==
    /\ pc = "loop"
    /\ \E i \in 1 .. Len(queue) :
          /\ queue[i] \in visited
          /\ Becomes(Discarded(Cur, Remove(queue, i)))
    /\ UNCHANGED <<input, target, width, height, pc, written, run, first>>

PopAnyVisit ==
    /\ pc = "loop"
    /\ \E i \in 1 .. Len(queue) :
          /\ queue[i] \notin visited
          /\ Becomes(Visited(Cur, queue[i], Remove(queue, i), width, height, target))
    /\ UNCHANGED <<input, target, width, height, pc, written, run, first>>

NextAny ==
    \/ OpenFail
    \/ Open
    \/ Seed
    \/ PopAnyDiscard
    \/ PopAnyVisit
    \/ LoopExit
    \/ SaveOk
    \/ SaveFail
    \/ Finish

SpecAny == InitFewWhite /\ [][NextAny]_vars

-----------------------------------------------------------------------------
(* The fill run again on the grid the previous pass left.                  *)

\* Lines 30-59 are entered again with the pixels as they are.
Refill ==
    /\ pc = "save"
    /\ written = <<>>
    /\ run < MaxRuns
    /\ run' = run + 1
    /\ pc' = "seed"
    /\ UNCHANGED <<input, target, width, height, pixels, visited, queue, written,
                   enq, writes, pops, first>>

NextTwice ==
    \/ Next
    \/ Refill

SpecTwice == Init /\ [][NextTwice]_vars

-----------------------------------------------------------------------------
(* What the properties are stated with *)

\* The coordinates of image img whose input pixel satisfies the predicate.
Matching(img) == {c \in DOMAIN img.pixels : is_white(img.pixels[c])}

\* The outer ring of a w x h grid.
Perimeter(w, h) ==
    {c \in Coords(w, h) : c[1] \in {0, w - 1} \/ c[2] \in {0, h - 1}}

\* 4-connected: one unit apart in exactly one axis.
Adjacent(a, b) ==
    \/ a[1] = b[1] /\ (a[2] - b[2] = 1 \/ b[2] - a[2] = 1)
    \/ a[2] = b[2] /\ (a[1] - b[1] = 1 \/ b[1] - a[1] = 1)

\* The least set that holds S and every coordinate of M adjacent to it.
RECURSIVE Grow(_, _)
Grow(S, M) ==
    LET T == S \cup {c \in M : \E d \in S : Adjacent(c, d)}
    IN  IF T = S THEN S ELSE Grow(T, M)

\* The coordinates reachable from a perimeter coordinate by a 4-connected path
\* of coordinates that all match in the input image.
BorderReachable(img) ==
    Grow(Perimeter(img.width, img.height) \cap Matching(img), Matching(img))

RECURSIVE SumOver(_, _)
SumOver(f, S) ==
    IF S = {} THEN 0
    ELSE LET c == CHOOSE d \in S : TRUE IN f[c] + SumOver(f, S \ {c})

\* The number of entries that entered the queue in this fill.
TotalEnq == SumOver(enq, DOMAIN enq)

\* The number of pixel assignments of this fill.
TotalWrites == SumOver(writes, DOMAIN writes)

\* The while loop has been reached / has been left.
FillEnded == pc \in {"save", "done"} \/ (pc = "error" /\ width > 0)

FillStarted == pc = "loop" \/ FillEnded

\* The filtered seed list of the input image.
InputSeeds == FilterWhite(BorderSeeds(input.width, input.height), input.pixels)

Centre == <<1, 1>>

-----------------------------------------------------------------------------
(* The claims *)

\* C1: when the fill loop has ended (the target does not match), the grid holds
\* the target at exactly the coordinates reachable from the perimeter through
\* matching input pixels, and the input value at every other coordinate.
C1_FillResult ==
    (FillEnded /\ ~is_white(target)) =>
        \A c \in Coords(width, height) :
            pixels[c] = IF c \in BorderReachable(input) THEN target
                        ELSE input.pixels[c]

\* A 3 x 3 grid, all matching but the centre: the eight others hold the target
\* and the centre is the sole unchanged pixel.
C1_Witness ==
    /\ FillEnded
    /\ width = 3 /\ height = 3
    /\ Matching(input) = Coords(3, 3) \ {Centre}
    /\ pixels[Centre] = input.pixels[Centre]
    /\ \A c \in Coords(3, 3) \ {Centre} : pixels[c] = target /\ pixels[c] # input.pixels[c]

\* C2: in every state, a coordinate that was written, that differs from its
\* input value, or that is in the frontier is reachable from the perimeter
\* through matching input pixels; so an enclosed matching region is never
\* written and a non-matching perimeter pixel is neither queued nor written.
C2_OnlyReachableTouched ==
    /\ \A c \in DOMAIN writes : writes[c] > 0 => c \in BorderReachable(input)
    /\ \A c \in DOMAIN pixels :
          pixels[c] # input.pixels[c] => c \in BorderReachable(input)
    /\ \A c \in Range(queue) : c \in BorderReachable(input)
    /\ \A c \in Perimeter(width, height) :
          ~is_white(input.pixels[c]) =>
              c \notin Range(queue) /\ (c \in DOMAIN writes => writes[c] = 0)

\* Mid-fill on a 3 x 3 grid: white corners, non-white edge midpoints, a white
\* centre they enclose; a corner has been written, the centre has not.
C2_Witness ==
    /\ pc = "loop" /\ queue # <<>>
    /\ width = 3 /\ height = 3
    /\ Matching(input) = {<<0, 0>>, <<2, 0>>, <<0, 2>>, <<2, 2>>, Centre}
    /\ writes[<<0, 0>>] = 1
    /\ pixels[Centre] = input.pixels[Centre]

\* C3: the fill terminates for any target colour: the pops never exceed the
\* enqueues, and once the fill is entered the loop is left with an empty queue.
C3_Terminates ==
    /\ [](pops <= TotalEnq)
    /\ (pc = "seed") ~> (pc = "save" /\ queue = <<>>)

\* A fill whose target matches the predicate has ended after visiting several
\* pixels and discarding duplicates.
C3_Witness ==
    /\ pc = "save"
    /\ is_white(target)
    /\ Cardinality(visited) >= 3
    /\ pops > Cardinality(visited)
    /\ pops = TotalEnq

\* C4 as stated: no end state holds some but not all of the outputs.
C4_NoPartialWrites ==
    pc \in {"error", "done"} => Len(written) \in {0, Len(Outputs)}

\* C4 as amended: the outputs written are always a prefix of the save order;
\* all six when the function ends normally, fewer when a step failed, none when
\* the open failed.
C4_WritesArePrefix ==
    /\ written = SubSeq(Outputs, 1, Len(written))
    /\ pc = "done" => written = Outputs
    /\ pc = "error" => Len(written) < Len(Outputs)
    /\ (pc = "error" /\ width = 0) => written = <<>>

\* The fourth save failed: three outputs are written and the function has ended.
C4_Witness == pc = "error" /\ Len(written) = 3

\* C5: when no perimeter pixel matches, the fill is a no-op: the queue is empty
\* after the filter, nothing is popped, visited or written, the grid is the input.
C5_NoSeedNoOp ==
    (FillStarted /\ Perimeter(width, height) \cap Matching(input) = {}) =>
        /\ queue = <<>>
        /\ pops = 0
        /\ visited = {}
        /\ \A c \in DOMAIN writes : writes[c] = 0 /\ enq[c] = 0
        /\ pixels = input.pixels

\* A 3 x 3 grid with a white centre and no white perimeter pixel, after the loop.
C5_Witness ==
    /\ pc = "save"
    /\ width = 3 /\ height = 3
    /\ Matching(input) = {Centre}
    /\ pixels = input.pixels

\* C6: a second pass over the result of the first (the target does not match)
\* finds no seed and leaves the grid as the first pass left it.
C6_Idempotent ==
    (run >= 2 /\ pc # "seed" /\ ~is_white(target)) =>
        /\ queue = <<>>
        /\ pops = 0
        /\ visited = {}
        /\ pixels = first

\* The second pass has ended on a grid that the first pass changed.
C6_Witness ==
    /\ run = 2
    /\ pc = "save"
    /\ first # input.pixels
    /\ pixels = first

\* C7: in every state a visited coordinate holds the target and a coordinate
\* that is not visited holds its input value.
C7_VisitedIffTarget ==
    \A c \in DOMAIN pixels :
        /\ c \in visited => pixels[c] = target
        /\ c \notin visited => pixels[c] = input.pixels[c]
        /\ pixels[c] \in {input.pixels[c], target}

\* Mid-fill: some pixels are written, a matching pixel is still unwritten.
C7_Witness ==
    /\ pc = "loop"
    /\ Cardinality(visited) >= 2
    /\ \E c \in DOMAIN pixels : c \notin visited /\ c \in Range(queue)
    /\ \A c \in visited : pixels[c] # input.pixels[c]

\* C8: a coordinate is written once if it is visited and never otherwise, a
\* popped coordinate that is visited is discarded without a write, the visited
\* set only grows, and at the end the writes number the visited set.
C8_WrittenOnce ==
    /\ [](\A c \in DOMAIN writes : writes[c] = IF c \in visited THEN 1 ELSE 0)
    /\ [](FillEnded => TotalWrites = Cardinality(visited))
    /\ [][/\ visited \subseteq visited'
          /\ (pc = "loop" /\ queue # <<>> /\ Head(queue) \in visited) =>
                (pixels' = pixels /\ writes' = writes /\ visited' = visited)]_vars

\* The fill has ended after popping more entries than it wrote pixels.
C8_Witness ==
    /\ FillEnded
    /\ Cardinality(visited) >= 2
    /\ pops > Cardinality(visited)
    /\ TotalWrites = Cardinality(visited)

\* C9: whatever element of the queue each iteration takes, the run ends with
\* the grid and the visited set of the run that takes the first each time.
C9_OrderIndependent ==
    FillEnded =>
        LET fifo == Fill(input.pixels, width, height, target)
        IN  pixels = fifo.pixels /\ visited = fifo.visited

\* A run has ended whose enqueue history is not that of the first-in-first-out
\* run, and a pixel was reached that no seed names.
C9_Witness ==
    /\ FillEnded
    /\ enq # Fill(input.pixels, width, height, target).enq
    /\ visited \ Range(InputSeeds) # {}

\* C10: a coordinate enters the queue at most 4 times: its copies in the
\* filtered seed list and one push per visited neighbour; the queue never holds
\* more than 4 * W * H entries.
C10_BoundedEnqueues ==
    /\ \A c \in DOMAIN enq :
          /\ enq[c] <= 4
          /\ enq[c] <= Count(InputSeeds, c)
                         + Cardinality({n \in visited : Adjacent(n, c)})
    /\ Len(queue) <= 4 * width * height

\* A coordinate seeded twice and pushed by two neighbours entered 4 times.
C10_Witness ==
    \E c \in DOMAIN enq :
        /\ enq[c] = 4
        /\ Count(InputSeeds, c) = 2
        /\ Cardinality({n \in visited : Adjacent(n, c)}) = 2

=============================================================================
